---- MODULE Spec2Model ----
(***************************************************************************)
(* A model of discord/ext/commands/hybrid.py: the hybrid (text + slash)    *)
(* command wrappers.  Four parts of the file are modelled, each with its   *)
(* own specification over the shared variables:                            *)
(*   SpecGroups  - HybridGroup.add_command / remove_command                *)
(*   SpecChecks  - HybridAppCommand._check_can_run                         *)
(*   SpecInvoke  - HybridAppCommand._invoke_with_namespace                 *)
(*   SpecConvert - make_converter_transformer's transform                  *)
(***************************************************************************)
EXTENDS Integers, Sequences, FiniteSets, TLC

None == "None"

(***************************************************************************)
(* Python dict helpers (insertion order is not observed by the model).     *)
(***************************************************************************)
Put(m, k, v) == [x \in (DOMAIN m) \cup {k} |-> IF x = k THEN v ELSE m[x]]
Pop(m, k) == [x \in (DOMAIN m) \ {k} |-> m[x]]
EmptyMap == [x \in {} |-> None]
SeqRange(s) == {s[i] : i \in 1..Len(s)}
MapRange(m) == {m[k] : k \in DOMAIN m}

(***************************************************************************)
(* PART 1: groups.  The objects that add_command can be handed.            *)
(***************************************************************************)
HybridGroups == {"gA", "gB", "gC"}
HybridCommands == {"c1", "c3"}
PlainCommands == {"plain"}
Objects == HybridGroups \cup HybridCommands \cup PlainCommands

\* wrapper.name of each object
Name ==
  [o \in Objects |->
     CASE o = "gA" -> "a" [] o = "gB" -> "b" [] o = "gC" -> "x"
       [] o = "c1" -> "x" [] o = "c3" -> "y"
       [] OTHER -> "y"]

\* wrapper.aliases of each object
Aliases ==
  [o \in Objects |->
     CASE o = "gC" -> <<"a">>
       [] o = "c3" -> <<"z", "x">>
       [] OTHER -> <<>>]

Keys == {Name[o] : o \in Objects} \cup UNION {SeqRange(Aliases[o]) : o \in Objects}

VARIABLES
  all_commands,   \* HybridGroup.all_commands: group -> (name/alias -> wrapper)
  app_children,   \* HybridGroup.app_command._children: group -> (name -> wrapper whose adapter it is)
  parent,         \* wrapper.parent of every object
  last,           \* the last call made and how it ended
  calls           \* number of add_command / remove_command calls made so far

groupVars == <<all_commands, app_children, parent, last, calls>>

VARIABLES
  chk,            \* the command being checked: its parent, its binding, its check lists
  chk_pc,         \* where _check_can_run stands
  chk_i,          \* index into the check list being run by async_all
  ran,            \* the check points evaluated so far, with what each returned
  chk_result      \* what _check_can_run returned ("pending" until it ends)

checkVars == <<chk, chk_pc, chk_i, ran, chk_result>>

VARIABLES
  inv_pc,         \* where _invoke_with_namespace stands
  inv_ctx,        \* whether the Context has been built (interaction._baton)
  inv_error,      \* <<where, error>> once get_context, prepare or the callback raised
  inv_exc,        \* the local exc, set by the except clauses
  dispatched,     \* the errors handed to self.wrapped.dispatch_error, in order
  inv_raised,     \* the error _invoke_with_namespace raised to its caller, if any
  inv_ret,        \* what _invoke_with_namespace returned, if it returned
  inv_steps       \* the awaited calls of the try block and line 199 made so far

invokeVars ==
  <<inv_pc, inv_ctx, inv_error, inv_exc, dispatched, inv_raised, inv_ret, inv_steps>>

VARIABLES
  conv            \* the last call of a synthesized transform and how it ended

convVars == <<conv>>

VARIABLES
  wrapper,        \* the HybridCommand or HybridGroup last constructed
  adapter         \* its app_command

constructVars == <<wrapper, adapter>>

VARIABLES
  repl            \* the last call of replace_parameters and what it returned

paramVars == <<repl>>

VARIABLES
  route           \* the last can_run / _parse_arguments call of a HybridCommand

routeVars == <<route>>

vars == <<groupVars, checkVars, invokeVars, convVars, constructVars, paramVars, routeVars>>

\* the number of calls one run makes
MaxCalls == 5

isinstance_hybrid(c) == c \in HybridCommands \cup HybridGroups

(***************************************************************************)
(* app_commands.Group.add_command / remove_command (host framework): the   *)
(* structured group holds its children by name; it refuses a name it       *)
(* already holds before changing anything, and removal pops the name.      *)
(* Its limit on the number of children is far above the groups built here  *)
(* and is left out.                                                        *)
(***************************************************************************)
AppHas(app, name) == name \in DOMAIN app
AppAdd(app, c) == Put(app, Name[c], c)
AppRemove(app, name) == Pop(app, name)

(***************************************************************************)
(* GroupMixin.remove_command (host framework), called through super() at   *)
(* line 345: pop the key; when the key was the command's own name, pop its *)
(* aliases too, putting back any alias that belongs to another command.    *)
(***************************************************************************)
RECURSIVE PopAliases(_, _, _)
PopAliases(all, command, i) ==
  IF i > Len(Aliases[command]) THEN all
  ELSE LET alias == Aliases[command][i] IN
       IF alias \in DOMAIN all /\ all[alias] = command
         THEN PopAliases(Pop(all, alias), command, i + 1)
         ELSE PopAliases(all, command, i + 1)

CoreRemoveCommand(all, name) ==
  IF name \notin DOMAIN all THEN all
  ELSE LET command == all[name] IN
       IF name \in SeqRange(Aliases[command]) THEN Pop(all, name)
       ELSE PopAliases(Pop(all, name), command, 1)

CoreRemoved(all, name) == IF name \in DOMAIN all THEN all[name] ELSE None

\* HybridGroup.remove_command, lines 344-347, on one group's two mappings
RemoveOnlyWrapper(all, app, name) ==
  [all |-> CoreRemoveCommand(all, name), app |-> app]

HybridRemove(all, app, name) ==
  [all |-> CoreRemoveCommand(all, name), app |-> AppRemove(app, name)]

\* the alias loop of add_command, lines 338-342
RECURSIVE AddAliases(_, _, _, _)
AddAliases(all, app, c, i) ==
  IF i > Len(Aliases[c]) THEN [all |-> all, app |-> app, err |-> "none"]
  ELSE LET alias == Aliases[c][i] IN
       IF alias \in DOMAIN all
         THEN LET r == HybridRemove(all, app, Name[c]) IN
              [all |-> r.all, app |-> r.app, err |-> "CommandRegistrationError(alias)"]
         ELSE AddAliases(Put(all, alias, c), app, c, i + 1)

\* the nesting guard of add_command, line 328
NoNestingGuard(g, c, par) == FALSE
TooNested(g, c, par) == c \in HybridGroups /\ par[g] # None

\* HybridGroup.add_command, lines 325-342: the result of the whole call
AddResult(g, c, all, app, par) ==
  IF ~isinstance_hybrid(c)
    THEN [all |-> all, app |-> app, par |-> par, err |-> "TypeError"]
  ELSE IF TooNested(g, c, par)
    THEN [all |-> all, app |-> app, par |-> par, err |-> "ValueError"]
  ELSE IF AppHas(app, Name[c])
    THEN [all |-> all, app |-> app, par |-> par, err |-> "CommandAlreadyRegistered"]
  ELSE LET app1 == AppAdd(app, c)
           par1 == [par EXCEPT ![c] = g]
       IN IF Name[c] \in DOMAIN all
            THEN [all |-> all, app |-> app1, par |-> par1,
                  err |-> "CommandRegistrationError(name)"]
            ELSE LET r == AddAliases(Put(all, Name[c], c), app1, c, 1) IN
                 [all |-> r.all, app |-> r.app, par |-> par1, err |-> r.err]

add_command(g, c) ==
  LET r == AddResult(g, c, all_commands[g], app_children[g], parent) IN
  /\ calls < MaxCalls
  /\ calls' = calls + 1
  /\ all_commands' = [all_commands EXCEPT ![g] = r.all]
  /\ app_children' = [app_children EXCEPT ![g] = r.app]
  /\ parent' = r.par
  /\ last' = [op |-> "add_command", group |-> g, arg |-> c, err |-> r.err, ret |-> None]
  /\ UNCHANGED <<checkVars, invokeVars, convVars, constructVars, paramVars, routeVars>>

remove_command(g, name) ==
  LET r == HybridRemove(all_commands[g], app_children[g], name) IN
  /\ calls < MaxCalls
  /\ calls' = calls + 1
  /\ all_commands' = [all_commands EXCEPT ![g] = r.all]
  /\ app_children' = [app_children EXCEPT ![g] = r.app]
  /\ parent' = parent
  /\ last' = [op |-> "remove_command", group |-> g, arg |-> name, err |-> "none",
              ret |-> CoreRemoved(all_commands[g], name)]
  /\ UNCHANGED <<checkVars, invokeVars, convVars, constructVars, paramVars, routeVars>>

GroupsInit ==
  /\ all_commands = [g \in HybridGroups |-> EmptyMap]
  /\ app_children = [g \in HybridGroups |-> EmptyMap]
  /\ parent = [o \in Objects |-> None]
  /\ last = [op |-> "init", group |-> None, arg |-> None, err |-> "none", ret |-> None]
  /\ calls = 0

\* a group is handed any other object (never itself) and any key
GroupsNext ==
  \/ \E g \in HybridGroups : \E c \in Objects \ {g} : add_command(g, c)
  \/ \E g \in HybridGroups, name \in Keys : remove_command(g, name)

(***************************************************************************)
(* PART 2: HybridAppCommand._check_can_run, lines 139-190.  Every check is *)
(* awaited, so every check point is a step of its own.  A check returns a  *)
(* truthy value, a falsy value, or raises.                                 *)
(***************************************************************************)
\* the longest check list tried
MaxChecks == 2

CheckOutcomes == {"truthy", "falsy", "raises"}

\* self.parent: None, the binding itself, or another group;
\* self.binding: None or a cog, with or without interaction_check / an overridden cog_check
CheckedCommands ==
  { c \in [parent : {"None", "binding", "group"},
           binding : {"None", "cog"},
           has_interaction_check : BOOLEAN,
           has_cog_check : BOOLEAN,
           n_checks : 0..MaxChecks,
           n_wrapped_checks : 0..MaxChecks] :
      /\ (c.parent = "binding" => c.binding # "None")
      /\ (c.binding = "None" => ~c.has_interaction_check /\ ~c.has_cog_check) }

\* line 158
ParentIsSet(c) == c.parent # "None"
ParentIsNotBinding(c) == c.parent # "None" /\ c.parent # "binding"

\* the statement reached once the check at a place has passed
AfterWrappedChecks(c) == "return_true"
AfterChecks(c) == IF c.n_wrapped_checks > 0 THEN "wrapped.checks" ELSE AfterWrappedChecks(c)
AfterBinding(c) == IF c.n_checks > 0 THEN "self.checks" ELSE AfterChecks(c)
AfterInteractionCheck(c) == IF c.has_cog_check THEN "cog_check" ELSE AfterBinding(c)
CogCheckFirst(c) ==
  IF c.binding = "None" THEN AfterBinding(c)
  ELSE IF c.has_cog_check THEN "cog_check"
  ELSE IF c.has_interaction_check THEN "binding.interaction_check"
  ELSE AfterBinding(c)
AfterParent(c) ==
  IF c.binding = "None" THEN AfterBinding(c)
  ELSE IF c.has_interaction_check THEN "binding.interaction_check"
  ELSE AfterInteractionCheck(c)
AfterBotCanRun(c) ==
  IF ParentIsNotBinding(c) THEN "parent.interaction_check" ELSE AfterParent(c)

\* what a check's answer does to the run: `if not ...: return False`
KeepGoing(outcome, next) ==
  [pc |-> IF next = "return_true" THEN "done" ELSE next,
   result |-> IF next = "return_true" THEN "True" ELSE "pending"]
Continue(outcome, next) ==
  IF outcome = "truthy" THEN KeepGoing(outcome, next)
  ELSE IF outcome = "falsy" THEN [pc |-> "done", result |-> "False"]
  ELSE [pc |-> "done", result |-> "raised"]

\* one awaited check at `point`, going to `next` when it passes
RunCheck(point, i, next) ==
  \E outcome \in CheckOutcomes :
    LET r == Continue(outcome, next) IN
    /\ ran' = Append(ran, [point |-> point, i |-> i, outcome |-> outcome])
    /\ chk_pc' = r.pc
    /\ chk_result' = r.result
    /\ UNCHANGED <<chk, groupVars, invokeVars, convVars, constructVars, paramVars, routeVars>>

bot_can_run_once ==
  /\ chk_pc = "bot.can_run(call_once)"
  /\ RunCheck("bot.can_run(call_once)", 1, "bot.can_run")
  /\ UNCHANGED chk_i

bot_can_run ==
  /\ chk_pc = "bot.can_run"
  /\ RunCheck("bot.can_run", 1, AfterBotCanRun(chk))
  /\ UNCHANGED chk_i

parent_interaction_check ==
  /\ chk_pc = "parent.interaction_check"
  /\ RunCheck("parent.interaction_check", 1, AfterParent(chk))
  /\ UNCHANGED chk_i

binding_interaction_check ==
  /\ chk_pc = "binding.interaction_check"
  /\ RunCheck("binding.interaction_check", 1, AfterInteractionCheck(chk))
  /\ UNCHANGED chk_i

cog_check ==
  /\ chk_pc = "cog_check"
  /\ RunCheck("cog_check", 1, AfterBinding(chk))
  /\ UNCHANGED chk_i

\* async_all over self.checks: one check per step, in list order
self_checks ==
  /\ chk_pc = "self.checks"
  /\ IF chk_i < chk.n_checks
       THEN RunCheck("self.checks", chk_i, "self.checks") /\ chk_i' = chk_i + 1
       ELSE RunCheck("self.checks", chk_i, AfterChecks(chk)) /\ chk_i' = 1

\* async_all over self.wrapped.checks
wrapped_checks ==
  /\ chk_pc = "wrapped.checks"
  /\ IF chk_i < chk.n_wrapped_checks
       THEN RunCheck("wrapped.checks", chk_i, "wrapped.checks") /\ chk_i' = chk_i + 1
       ELSE RunCheck("wrapped.checks", chk_i, AfterWrappedChecks(chk)) /\ chk_i' = 1

ChecksIdle ==
  /\ chk = [parent |-> "None", binding |-> "None", has_interaction_check |-> FALSE,
            has_cog_check |-> FALSE, n_checks |-> 0, n_wrapped_checks |-> 0]
  /\ chk_pc = "idle"
  /\ chk_i = 1
  /\ ran = <<>>
  /\ chk_result = "pending"

ChecksInit ==
  /\ chk \in CheckedCommands
  /\ chk_pc = "bot.can_run(call_once)"
  /\ chk_i = 1
  /\ ran = <<>>
  /\ chk_result = "pending"

ChecksNext ==
  \/ bot_can_run_once
  \/ bot_can_run
  \/ parent_interaction_check
  \/ binding_interaction_check
  \/ cog_check
  \/ self_checks
  \/ wrapped_checks

(***************************************************************************)
(* Errors.  cause is __cause__, original is the wrapped error a            *)
(* HybridCommandError or ConversionError carries, converter the helper a   *)
(* ConversionError carries; each is empty or holds one item.               *)
(***************************************************************************)
\* how many errors of one class are told apart
MaxErr == 2

Err(cls, id, cause) ==
  [cls |-> cls, id |-> id, cause |-> cause, original |-> <<>>, converter |-> <<>>]

\* what a conversion helper or a hook can raise itself
PlainErrors == {Err(cls, id, <<>>) : cls \in {"CommandError", "Exception"}, id \in 1..MaxErr}

\* what the structured system raises: some `from` an underlying error
AppErrors ==
  {Err(cls, id, cause) :
     cls \in {"TransformerError", "AppCommandError"},
     id \in 1..MaxErr,
     cause \in {<<>>} \cup {<<e>> : e \in PlainErrors}}
  \cup {Err("CommandSignatureMismatch", id, <<>>) : id \in 1..MaxErr}

Raisable == PlainErrors \cup AppErrors

\* isinstance(e, CommandError), isinstance(e, app_commands.AppCommandError)
IsCommandError(e) == e.cls \in {"CommandError", "ConversionError", "HybridCommandError"}
IsAppCommandError(e) ==
  e.cls \in {"AppCommandError", "TransformerError", "CommandSignatureMismatch"}

\* HybridCommandError(e) with __cause__ = e, lines 212-213 and 215-216
HybridCommandError(e) ==
  [cls |-> "HybridCommandError", id |-> e.id, cause |-> <<e>>, original |-> <<e>>,
   converter |-> <<>>]

\* raise ConversionError(converter, exc) from exc, line 101
ConversionError(converter, exc) ==
  [cls |-> "ConversionError", id |-> exc.id, cause |-> <<exc>>, original |-> <<exc>>,
   converter |-> <<converter>>]

(***************************************************************************)
(* PART 3: HybridAppCommand._invoke_with_namespace, lines 192-220.         *)
(***************************************************************************)
\* the values a callback returns
MaxValue == 3

\* the except clauses, lines 206-218: re-raise, or the exc to dispatch;
\* an error no clause names leaves the function as it is
ClassifyWrapAll(e) ==
  IF e.cls = "CommandSignatureMismatch" THEN [raise |-> <<e>>, exc |-> <<>>]
  ELSE IF IsAppCommandError(e) THEN [raise |-> <<>>, exc |-> <<HybridCommandError(e)>>]
  ELSE IF IsCommandError(e) THEN [raise |-> <<>>, exc |-> <<e>>]
  ELSE [raise |-> <<e>>, exc |-> <<>>]
ClassifyCatchAll(e) ==
  IF e.cls = "CommandSignatureMismatch" THEN [raise |-> <<e>>, exc |-> <<>>]
  ELSE IF e.cls = "TransformerError"
    THEN IF e.cause # <<>> /\ IsCommandError(e.cause[1])
           THEN [raise |-> <<>>, exc |-> <<e.cause[1]>>]
           ELSE [raise |-> <<>>, exc |-> <<HybridCommandError(e)>>]
  ELSE IF IsAppCommandError(e) THEN [raise |-> <<>>, exc |-> <<HybridCommandError(e)>>]
  ELSE [raise |-> <<>>, exc |-> <<e>>]
Classify(e) ==
  IF e.cls = "CommandSignatureMismatch" THEN [raise |-> <<e>>, exc |-> <<>>]
  ELSE IF e.cls = "TransformerError"
    THEN IF e.cause # <<>> /\ IsCommandError(e.cause[1])
           THEN [raise |-> <<>>, exc |-> <<e.cause[1]>>]
           ELSE [raise |-> <<>>, exc |-> <<HybridCommandError(e)>>]
  ELSE IF IsAppCommandError(e) THEN [raise |-> <<>>, exc |-> <<HybridCommandError(e)>>]
  ELSE IF IsCommandError(e) THEN [raise |-> <<>>, exc |-> <<e>>]
  ELSE [raise |-> <<e>>, exc |-> <<>>]

\* an error raised inside the try block at `where`
RaisedAndCarriedOn(where, e) ==
  LET r == Classify(e) IN
  /\ inv_error' = <<where, e>>
  /\ inv_exc' = r.exc
  /\ inv_raised' = r.raise
  /\ inv_pc' = IF where = "prepare" THEN "_do_call"
               ELSE IF r.raise # <<>> THEN "done" ELSE "dispatch_error"
  /\ UNCHANGED <<inv_ctx, dispatched, inv_ret>>
RaisedInTry(where, e) ==
  LET r == Classify(e) IN
  /\ inv_error' = <<where, e>>
  /\ inv_exc' = r.exc
  /\ inv_raised' = r.raise
  /\ inv_pc' = IF r.raise # <<>> THEN "done" ELSE "dispatch_error"
  /\ UNCHANGED <<inv_ctx, dispatched, inv_ret>>

\* line 199: the Context is built, outside the try block
get_context ==
  /\ inv_pc = "get_context"
  /\ inv_steps' = Append(inv_steps, [call |-> "bot.get_context", arg |-> "interaction"])
  /\ \/ /\ inv_ctx' = TRUE
        /\ inv_pc' = "prepare"
        /\ UNCHANGED <<inv_error, inv_exc, dispatched, inv_raised, inv_ret>>
     \/ \E e \in PlainErrors :
        /\ inv_error' = <<"get_context", e>>
        /\ inv_raised' = <<e>>
        /\ inv_pc' = "done"
        /\ UNCHANGED <<inv_ctx, inv_exc, dispatched, inv_ret>>
  /\ UNCHANGED <<groupVars, checkVars, convVars, constructVars, paramVars, routeVars>>

\* line 203: await self.wrapped.prepare(ctx)
prepare ==
  /\ inv_pc = "prepare"
  /\ inv_steps' = Append(inv_steps, [call |-> "wrapped.prepare", arg |-> "ctx"])
  /\ \/ /\ inv_pc' = "_do_call"
        /\ UNCHANGED <<inv_ctx, inv_error, inv_exc, dispatched, inv_raised, inv_ret>>
     \/ \E e \in Raisable : RaisedInTry("prepare", e)
  /\ UNCHANGED <<groupVars, checkVars, convVars, constructVars, paramVars, routeVars>>

\* line 205: return await self._do_call(ctx, ctx.kwargs)
do_call ==
  /\ inv_pc = "_do_call"
  /\ inv_steps' = Append(inv_steps, [call |-> "_do_call", arg |-> "ctx"])
  /\ \/ \E v \in 1..MaxValue :
        /\ inv_ret' = <<v>>
        /\ inv_pc' = "done"
        /\ UNCHANGED <<inv_ctx, inv_error, inv_exc, dispatched, inv_raised>>
     \/ \E e \in Raisable : RaisedInTry("callback", e)
  /\ UNCHANGED <<groupVars, checkVars, convVars, constructVars, paramVars, routeVars>>

\* line 220: await self.wrapped.dispatch_error(ctx, exc)
dispatch_error ==
  /\ inv_pc = "dispatch_error"
  /\ dispatched' = Append(dispatched, inv_exc[1])
  /\ inv_pc' = "done"
  /\ UNCHANGED <<inv_ctx, inv_error, inv_exc, inv_raised, inv_ret, inv_steps>>
  /\ UNCHANGED <<groupVars, checkVars, convVars, constructVars, paramVars, routeVars>>

InvokeIdle ==
  /\ inv_pc = "idle"
  /\ inv_ctx = FALSE
  /\ inv_error = <<>>
  /\ inv_exc = <<>>
  /\ dispatched = <<>>
  /\ inv_raised = <<>>
  /\ inv_ret = <<>>
  /\ inv_steps = <<>>

InvokeInit ==
  /\ inv_pc = "get_context"
  /\ inv_ctx = FALSE
  /\ inv_error = <<>>
  /\ inv_exc = <<>>
  /\ dispatched = <<>>
  /\ inv_raised = <<>>
  /\ inv_ret = <<>>
  /\ inv_steps = <<>>

InvokeNext ==
  \/ get_context
  \/ prepare
  \/ do_call
  \/ dispatch_error

(***************************************************************************)
(* PART 4: the transform of make_converter_transformer, lines 88-103.      *)
(***************************************************************************)
\* a converter is a Converter subclass whose convert is a classmethod, a
\* Converter subclass with an ordinary convert, or a Converter instance
Converters ==
  [kind : {"class with classmethod convert", "class", "instance"}, id : 1..2]

\* what the helper's convert does with the value: return something or raise
HelperOutcomes ==
  [kind : {"returns"}, value : 1..MaxValue, err : {<<>>}]
  \cup [kind : {"raises"}, value : {0}, err : {<<e>> : e \in PlainErrors}]

\* lines 91-97: which convert is awaited, and with what
ConvertCall(converter, value) ==
  [receiver |-> CASE converter.kind = "class with classmethod convert" -> "converter"
                  [] converter.kind = "class" -> "converter()"
                  [] converter.kind = "instance" -> "converter",
   ctx |-> "interaction._baton",
   value |-> value]

\* lines 90-101: the try / except around the helper
TransformWrapAll(converter, outcome) ==
  IF outcome.kind = "returns" THEN [kind |-> "returns", value |-> outcome.value, err |-> <<>>]
  ELSE [kind |-> "raises", value |-> 0, err |-> <<ConversionError(converter, outcome.err[1])>>]
Transform(converter, outcome) ==
  IF outcome.kind = "returns" THEN [kind |-> "returns", value |-> outcome.value, err |-> <<>>]
  ELSE IF IsCommandError(outcome.err[1]) THEN [kind |-> "raises", value |-> 0, err |-> outcome.err]
  ELSE [kind |-> "raises", value |-> 0, err |-> <<ConversionError(converter, outcome.err[1])>>]

transform(converter, value, outcome) ==
  /\ conv' = [op |-> "transform", converter |-> converter, raw |-> value,
              called |-> <<ConvertCall(converter, value)>>,
              helper |-> outcome, result |-> Transform(converter, outcome)]
  /\ UNCHANGED <<groupVars, checkVars, invokeVars, constructVars, paramVars, routeVars>>

ConvertInit ==
  conv = [op |-> "init", converter |-> [kind |-> "instance", id |-> 1], raw |-> 0,
          called |-> <<>>, helper |-> [kind |-> "returns", value |-> 1, err |-> <<>>],
          result |-> [kind |-> "returns", value |-> 1, err |-> <<>>]]

ConvertNext ==
  \E converter \in Converters, value \in 1..MaxValue, outcome \in HelperOutcomes :
     transform(converter, value, outcome)

(***************************************************************************)
(* PART 5: construction, HybridCommand.__init__ (lines 239-246) with       *)
(* HybridAppCommand.__init__ (lines 117-132), HybridGroup.__init__ (lines  *)
(* 287-304), and the cog property of HybridCommand (lines 248-255).        *)
(***************************************************************************)
WrapperNames == {"a", "b", "x"}
\* wrapped.description and wrapped.short_doc: empty or some text
Descriptions == {"", "description A", "description B"}
ShortDocs == {"", "short doc A", "short doc B"}
Cogs == {"cog1", "cog2"}

\* description=wrapped.description or wrapped.short_doc or '...', lines 126 and 299
AdapterDescriptionDocFirst(description, short_doc) ==
  IF short_doc # "" THEN short_doc
  ELSE IF description # "" THEN description
  ELSE "..."
AdapterDescription(description, short_doc) ==
  IF description # "" THEN description
  ELSE IF short_doc # "" THEN short_doc
  ELSE "..."

\* the base Command / Group constructor: it keeps the name and the texts it is
\* given and leaves the cog unset
BaseInit(kind, name, description, short_doc, parent_group) ==
  [kind |-> kind, name |-> name, description |-> description,
   short_doc |-> short_doc, cog |-> None, parent |-> parent_group]

\* the app_commands Command / Group constructor: it keeps the name and the
\* description it is given; binding, parent and wrapped are not set yet
AppInit(kind, name, description) ==
  [kind |-> kind, name |-> name, description |-> description,
   binding |-> None, parent |-> None, wrapped |-> <<>>]

\* HybridCommand.__init__: the command is built, then its adapter from it
HybridCommandInit(name, description, short_doc) ==
  LET wrapped == BaseInit("HybridCommand", name, description, short_doc, None)
  IN /\ wrapper' = wrapped
     /\ adapter' = [AppInit("HybridAppCommand", wrapped.name,
                       AdapterDescription(wrapped.description, wrapped.short_doc))
                     EXCEPT !.wrapped = <<wrapped.name>>, !.binding = wrapped.cog]
     /\ UNCHANGED <<groupVars, checkVars, invokeVars, convVars, paramVars, routeVars>>

\* HybridGroup.__init__: parent is None or a HybridGroup, whose adapter becomes
\* the parent of the new group's adapter (line 304); with any other parent
\* the constructor raises TypeError (line 294) and no group is made
HybridGroupInit(name, description, short_doc, parent_group) ==
  LET self == BaseInit("HybridGroup", name, description, short_doc, parent_group)
  IN /\ wrapper' = self
     /\ adapter' = [AppInit("app_commands.Group", self.name,
                       AdapterDescription(self.description, self.short_doc))
                     EXCEPT !.parent = IF parent_group = None THEN None
                                       ELSE parent_group \o ".app_command"]
     /\ UNCHANGED <<groupVars, checkVars, invokeVars, convVars, paramVars, routeVars>>

\* the cog setter, lines 252-255
SetCogOnly(w, a, value) ==
  [wrapper |-> [w EXCEPT !.cog = value], adapter |-> a]
SetCog(w, a, value) ==
  [wrapper |-> [w EXCEPT !.cog = value], adapter |-> [a EXCEPT !.binding = value]]

cog_setter(value) ==
  /\ wrapper.kind = "HybridCommand"
  /\ wrapper' = SetCog(wrapper, adapter, value).wrapper
  /\ adapter' = SetCog(wrapper, adapter, value).adapter
  /\ UNCHANGED <<groupVars, checkVars, invokeVars, convVars, paramVars, routeVars>>

ConstructInit ==
  /\ wrapper = [kind |-> "none", name |-> "", description |-> "", short_doc |-> "",
                cog |-> None, parent |-> None]
  /\ adapter = [kind |-> "none", name |-> "", description |-> "", binding |-> None,
                parent |-> None, wrapped |-> <<>>]

ConstructNext ==
  \/ \E name \in WrapperNames, description \in Descriptions, short_doc \in ShortDocs :
        HybridCommandInit(name, description, short_doc)
  \/ \E name \in WrapperNames, description \in Descriptions, short_doc \in ShortDocs,
         parent_group \in {None, "group"} :
        HybridGroupInit(name, description, short_doc, parent_group)
  \/ \E value \in Cogs \cup {None} : cog_setter(value)

(***************************************************************************)
(* PART 6: replace_parameters (lines 106-113), called by                   *)
(* HybridAppCommand.__init__ with wrapped.params and the callback's        *)
(* signature (lines 118-120).                                              *)
(***************************************************************************)
MaxParams == 2

\* what a parameter's converter can be, with or without the
\* __discord_app_commands_transformer__ attribute
ConverterKinds == {"Converter subclass", "Converter instance", "class", "object"}
ParamConverters == [kind : ConverterKinds, marker : BOOLEAN]

\* line 85: (inspect.isclass(c) and issubclass(c, Converter)) or isinstance(c, Converter)
isclass(converter) == converter.kind \in {"Converter subclass", "class"}
issubclass_Converter(converter) == converter.kind = "Converter subclass"
isinstance_Converter(converter) == converter.kind = "Converter instance"
is_converter(converter) ==
  (isclass(converter) /\ issubclass_Converter(converter)) \/ isinstance_Converter(converter)

\* line 110
NeedsTransformerIgnoringMarker(converter) == is_converter(converter)
NeedsTransformer(converter) == is_converter(converter) /\ ~converter.marker

\* line 103: the synthesized Transformer type of the converter of parameter name
ConverterTransformer(name, converter) ==
  <<"ConverterTransformer", name, converter.kind>>

ParamName(i) == <<"p", i>>

\* the leading parameters of the callback that are not command parameters
Leading == {<<"ctx">>, <<"self", "ctx">>}

\* inspect.signature(wrapped.callback).parameters, in order
SignatureOf(leading, n) ==
  [i \in 1..(Len(leading) + n) |->
     IF i <= Len(leading)
     THEN [name |-> <<leading[i], 0>>, annotation |-> <<"annotation", <<leading[i], 0>>, "">>]
     ELSE [name |-> ParamName(i - Len(leading)),
           annotation |-> <<"annotation", ParamName(i - Len(leading)), "">>]]

\* wrapped.params, in order: name and converter of each command parameter
ParametersOf(converters) ==
  [i \in 1..Len(converters) |-> [name |-> ParamName(i), converter |-> converters[i]]]

\* line 111: params[name] = params[name].replace(annotation=...)
ReplaceAnnotation(params, name, annotation) ==
  [i \in 1..Len(params) |->
     IF params[i].name = name THEN [params[i] EXCEPT !.annotation = annotation]
     ELSE params[i]]

\* lines 109-111, from the i-th parameter on
RECURSIVE ReplaceLoop(_, _, _)
ReplaceLoop(params, parameters, i) ==
  IF i > Len(parameters) THEN params
  ELSE ReplaceLoop(
         IF NeedsTransformer(parameters[i].converter)
         THEN ReplaceAnnotation(params, parameters[i].name,
                ConverterTransformer(parameters[i].name, parameters[i].converter))
         ELSE params,
         parameters, i + 1)

replace_parameters(parameters, signature) ==
  /\ repl' = [parameters |-> parameters, signature |-> signature,
              result |-> ReplaceLoop(signature, parameters, 1)]
  /\ UNCHANGED <<groupVars, checkVars, invokeVars, convVars, constructVars, routeVars>>

ConverterSeqs == UNION {[1..n -> ParamConverters] : n \in 0..MaxParams}

ParamsIdle == repl = <<>>

ParamsInit ==
  repl = [parameters |-> <<>>, signature |-> <<>>, result |-> <<>>]

ParamsNext ==
  \E leading \in Leading, converters \in ConverterSeqs :
    replace_parameters(ParametersOf(converters), SignatureOf(leading, Len(converters)))
(***************************************************************************)
(* PART 7: HybridCommand.can_run (lines 257-261) and                       *)
(* HybridCommand._parse_arguments (lines 263-268).  The base Command       *)
(* methods and the adapter's methods are what they call; each is given by  *)
(* what it would do if it were awaited.                                    *)
(***************************************************************************)
Interactions == {None, "interaction"}

\* what a check chain does: return a bool or raise
CanRunOutcomes ==
  [kind : {"returns"}, value : BOOLEAN, err : {<<>>}]
  \cup [kind : {"raises"}, value : {FALSE}, err : {<<e>> : e \in PlainErrors}]

\* what parsing or transforming the arguments does: give the arguments or raise
ArgumentOutcomes ==
  [kind : {"returns"}, value : 1..MaxValue, err : {<<>>}]
  \cup [kind : {"raises"}, value : {0}, err : {<<e>> : e \in PlainErrors}]

\* ctx.interaction is None, lines 258 and 265
NoInteractionEver(interaction) == TRUE
NoInteraction(interaction) == interaction = None

can_run(interaction, base, app) ==
  /\ route' =
       IF NoInteraction(interaction)
       THEN [op |-> "can_run", interaction |-> interaction, base |-> base, app |-> app,
             called |-> <<"super().can_run">>, result |-> base, kwargs |-> <<>>]
       ELSE [op |-> "can_run", interaction |-> interaction, base |-> base, app |-> app,
             called |-> <<"app_command._check_can_run">>, result |-> app, kwargs |-> <<>>]
  /\ UNCHANGED <<groupVars, checkVars, invokeVars, convVars, constructVars, paramVars>>

\* the base method parses the message into ctx.args and ctx.kwargs and returns
\* None; the adapter's method returns the arguments, which line 268 stores
parse_arguments(interaction, base, app) ==
  /\ route' =
       IF NoInteraction(interaction)
       THEN [op |-> "_parse_arguments", interaction |-> interaction, base |-> base, app |-> app,
             called |-> <<"super()._parse_arguments">>,
             result |-> [base EXCEPT !.value = 0],
             kwargs |-> IF base.kind = "returns" THEN <<"parsed", base.value>> ELSE <<>>]
       ELSE [op |-> "_parse_arguments", interaction |-> interaction, base |-> base, app |-> app,
             called |-> <<"app_command._transform_arguments">>,
             result |-> [app EXCEPT !.value = 0],
             kwargs |-> IF app.kind = "returns" THEN <<"transformed", app.value>> ELSE <<>>]
  /\ UNCHANGED <<groupVars, checkVars, invokeVars, convVars, constructVars, paramVars>>

RouteIdle == route = <<>>

RouteInit ==
  route = [op |-> "none", interaction |-> None, base |-> <<>>, app |-> <<>>,
           called |-> <<>>, result |-> <<>>, kwargs |-> <<>>]

RouteNext ==
  \/ \E interaction \in Interactions, base \in CanRunOutcomes, app \in CanRunOutcomes :
        can_run(interaction, base, app)
  \/ \E interaction \in Interactions, base \in ArgumentOutcomes, app \in ArgumentOutcomes :
        parse_arguments(interaction, base, app)

InitGroups ==
  GroupsInit /\ ChecksIdle /\ InvokeIdle /\ ConvertInit /\ ConstructInit /\ ParamsIdle /\ RouteIdle
SpecGroups == InitGroups /\ [][GroupsNext]_vars

InitChecks ==
  ChecksInit /\ GroupsInit /\ InvokeIdle /\ ConvertInit /\ ConstructInit /\ ParamsIdle /\ RouteIdle
SpecChecks == InitChecks /\ [][ChecksNext]_vars

InitInvoke ==
  InvokeInit /\ GroupsInit /\ ChecksIdle /\ ConvertInit /\ ConstructInit /\ ParamsIdle /\ RouteIdle
SpecInvoke == InitInvoke /\ [][InvokeNext]_vars

InitConvert ==
  ConvertInit /\ GroupsInit /\ ChecksIdle /\ InvokeIdle /\ ConstructInit /\ ParamsIdle /\ RouteIdle
SpecConvert == InitConvert /\ [][ConvertNext]_vars

InitConstruct ==
  ConstructInit /\ GroupsInit /\ ChecksIdle /\ InvokeIdle /\ ConvertInit /\ ParamsIdle /\ RouteIdle
SpecConstruct == InitConstruct /\ [][ConstructNext]_vars

InitParams ==
  ParamsInit /\ GroupsInit /\ ChecksIdle /\ InvokeIdle /\ ConvertInit /\ ConstructInit /\ RouteIdle
SpecParams == InitParams /\ [][ParamsNext]_vars

InitRoute ==
  RouteInit /\ GroupsInit /\ ChecksIdle /\ InvokeIdle /\ ConvertInit /\ ConstructInit /\ ParamsIdle
SpecRoute == InitRoute /\ [][RouteNext]_vars

(***************************************************************************)
(* Claims about the invocation and the conversion                          *)
(***************************************************************************)
\* the invocation has ended after prepare or the callback raised e
FailedInTry(e) ==
  /\ inv_pc = "done"
  /\ inv_error # <<>>
  /\ inv_error[1] \in {"prepare", "callback"}
  /\ inv_error[2] = e

\* C3: when prepare or the callback fails, dispatch_error gets: the cause itself
\* for a TransformerError whose cause is a CommandError; a HybridCommandError
\* holding the error, with the error as its cause, for any other structured-system
\* error; the very same error for a CommandError.  A signature mismatch is raised
\* again as it is and nothing is dispatched.
C3_ErrorClassification ==
  \A e \in Raisable :
    FailedInTry(e) =>
      /\ (e.cls = "TransformerError" /\ e.cause # <<>> /\ IsCommandError(e.cause[1]))
           => dispatched = <<e.cause[1]>>
      /\ (IsAppCommandError(e) /\ e.cls # "CommandSignatureMismatch"
            /\ ~(e.cls = "TransformerError" /\ e.cause # <<>> /\ IsCommandError(e.cause[1])))
           => /\ Len(dispatched) = 1
              /\ dispatched[1].cls = "HybridCommandError"
              /\ dispatched[1].original = <<e>>
              /\ dispatched[1].cause = <<e>>
      /\ e.cls = "CommandError" => dispatched = <<e>>
      /\ e.cls = "CommandSignatureMismatch" => inv_raised = <<e>> /\ dispatched = <<>>

\* the callback raised a TransformerError caused by a CommandError, which was unwrapped
C3_Witness ==
  /\ inv_pc = "done" /\ inv_error # <<>> /\ inv_error[1] = "callback"
  /\ inv_error[2].cls = "TransformerError"
  /\ inv_error[2].cause # <<>>
  /\ dispatched = inv_error[2].cause
  /\ dispatched[1].cls = "CommandError"

\* C4 (as claimed): an invocation in which prepare or the callback fails with any
\* error but the signature mismatch hands one error to dispatch_error and raises
\* nothing; a signature mismatch is raised and nothing is dispatched.
C4_EveryOtherErrorIsDispatched ==
  \A e \in Raisable :
    FailedInTry(e) =>
      IF e.cls = "CommandSignatureMismatch"
        THEN inv_raised = <<e>> /\ dispatched = <<>>
        ELSE Len(dispatched) = 1 /\ inv_raised = <<>>

\* C4 (amended): when prepare or the callback fails with a command-level
\* (CommandError) or structured-system (AppCommandError) error other than the
\* signature mismatch, one error is handed to dispatch_error and nothing is raised
\* to the caller; a signature mismatch, any other exception, and any exception
\* raised while the context is built, is raised to the caller as it is and nothing
\* is dispatched.  Nothing is dispatched twice, and nothing when the callback returns.
C4_CommandAndAppErrorsAreDispatched ==
  /\ Len(dispatched) <= 1
  /\ Len(dispatched) = 1 => inv_raised = <<>> /\ inv_ret = <<>>
  /\ inv_ret # <<>> => inv_error = <<>> /\ dispatched = <<>> /\ inv_raised = <<>>
  /\ \A e \in Raisable :
       FailedInTry(e) =>
         IF e.cls # "CommandSignatureMismatch" /\ (IsCommandError(e) \/ IsAppCommandError(e))
           THEN Len(dispatched) = 1 /\ inv_raised = <<>>
           ELSE inv_raised = <<e>> /\ dispatched = <<>>
  /\ (inv_pc = "done" /\ inv_error # <<>> /\ inv_error[1] = "get_context")
       => inv_raised = <<inv_error[2]>> /\ dispatched = <<>>

\* prepare raised a plain CommandError, which was dispatched and not raised
C4_Witness ==
  /\ inv_pc = "done" /\ inv_error # <<>> /\ inv_error[1] = "prepare"
  /\ inv_error[2].cls = "CommandError"
  /\ dispatched = <<inv_error[2]>>
  /\ inv_raised = <<>>

\* C5: the synthesized transform awaits the helper's convert on the raw value;
\* a value the helper returns is returned, a CommandError it raises is raised
\* unchanged, and any other exception becomes a ConversionError that carries the
\* helper and the exception and has the exception as its cause.
C5_TransformWrapsOnlyForeignErrors ==
  conv.op = "transform" =>
    /\ Len(conv.called) = 1 /\ conv.called[1].value = conv.raw
    /\ conv.helper.kind = "returns" =>
         conv.result.kind = "returns" /\ conv.result.value = conv.helper.value
    /\ (conv.helper.kind = "raises" /\ conv.helper.err[1].cls = "CommandError") =>
         conv.result.kind = "raises" /\ conv.result.err = conv.helper.err
    /\ (conv.helper.kind = "raises" /\ conv.helper.err[1].cls = "Exception") =>
         /\ conv.result.kind = "raises"
         /\ conv.result.err[1].cls = "ConversionError"
         /\ conv.result.err[1].converter = <<conv.converter>>
         /\ conv.result.err[1].original = conv.helper.err
         /\ conv.result.err[1].cause = conv.helper.err

\* a helper class that had to be instantiated raised a plain exception
C5_Witness ==
  /\ conv.op = "transform"
  /\ conv.converter.kind = "class"
  /\ conv.helper.kind = "raises" /\ conv.helper.err[1].cls = "Exception"
  /\ conv.result.err[1].cls = "ConversionError"

(***************************************************************************)
(* Claims about the check chain                                            *)
(***************************************************************************)
\* the place of each check point in the documented order
Rank(point) ==
  CASE point = "bot.can_run(call_once)" -> 1
    [] point = "bot.can_run" -> 2
    [] point = "parent.interaction_check" -> 3
    [] point = "binding.interaction_check" -> 4
    [] point = "cog_check" -> 5
    [] point = "self.checks" -> 6
    [] point = "wrapped.checks" -> 7

\* the check points that apply to a command, in the documented order
ExpectedChain(c) ==
  <<[point |-> "bot.can_run(call_once)", i |-> 1], [point |-> "bot.can_run", i |-> 1]>>
  \o (IF c.parent # "None" /\ c.parent # "binding"
        THEN <<[point |-> "parent.interaction_check", i |-> 1]>> ELSE <<>>)
  \o (IF c.binding # "None" /\ c.has_interaction_check
        THEN <<[point |-> "binding.interaction_check", i |-> 1]>> ELSE <<>>)
  \o (IF c.binding # "None" /\ c.has_cog_check
        THEN <<[point |-> "cog_check", i |-> 1]>> ELSE <<>>)
  \o [k \in 1..c.n_checks |-> [point |-> "self.checks", i |-> k]]
  \o [k \in 1..c.n_wrapped_checks |-> [point |-> "wrapped.checks", i |-> k]]

PointsRun == [k \in 1..Len(ran) |-> [point |-> ran[k].point, i |-> ran[k].i]]

\* C1: the check points are evaluated in the documented order: what has been
\* evaluated so far is always the beginning of the documented chain of the
\* command's applicable check points, and no check point is evaluated before one
\* that precedes it in the list.
C1_ChecksRunInDocumentedOrder ==
  /\ Len(ran) <= Len(ExpectedChain(chk))
  /\ PointsRun = SubSeq(ExpectedChain(chk), 1, Len(ran))
  /\ \A j, k \in 1..Len(ran) :
        j < k => \/ Rank(ran[j].point) < Rank(ran[k].point)
                 \/ Rank(ran[j].point) = Rank(ran[k].point) /\ ran[j].i < ran[k].i

\* a run through all seven kinds of check point that returned True
C1_Witness ==
  /\ chk_result = "True"
  /\ {ran[k].point : k \in 1..Len(ran)} =
       {"bot.can_run(call_once)", "bot.can_run", "parent.interaction_check",
        "binding.interaction_check", "cog_check", "self.checks", "wrapped.checks"}
  /\ chk.n_checks = MaxChecks /\ chk.n_wrapped_checks = MaxChecks

\* C2: a check point that returns a falsy value ends the chain with the result
\* False (one that raises ends it with that error) and no later check point is
\* evaluated; the result is True only when every applicable check point was
\* evaluated and passed.
C2_FirstFailureEndsTheChain ==
  /\ \A k \in 1..Len(ran) :
        ran[k].outcome # "truthy" =>
          /\ k = Len(ran)
          /\ chk_pc = "done"
          /\ chk_result = (IF ran[k].outcome = "falsy" THEN "False" ELSE "raised")
  /\ chk_result = "True" =>
        /\ PointsRun = ExpectedChain(chk)
        /\ \A k \in 1..Len(ran) : ran[k].outcome = "truthy"
  /\ chk_result = "False" => Len(ran) > 0 /\ ran[Len(ran)].outcome = "falsy"
  /\ chk_result = "pending" <=> chk_pc # "done"

\* a run that a falsy check ended in the middle of a longer chain
C2_Witness ==
  /\ chk_result = "False"
  /\ Len(ran) >= 3
  /\ Len(ran) < Len(ExpectedChain(chk))
  /\ ran[Len(ran)].outcome = "falsy"

(***************************************************************************)
(* Claims about the groups                                                 *)
(***************************************************************************)
\* this step is the call op(g, arg)
Called(op, g, arg) ==
  /\ calls' = calls + 1
  /\ last'.op = op /\ last'.group = g /\ last'.arg = arg

\* the hybrid groups held by a group, in the wrapper tree and in the adapter tree
SubGroups(g) == MapRange(all_commands[g]) \cap HybridGroups
AppSubGroups(g) == MapRange(app_children[g]) \cap HybridGroups

\* C6 (as claimed): add_command of a child whose name is free and one of whose
\* aliases is already a key ends in the alias-conflict error, and afterwards no key
\* of the group maps to the child and the adapter holds nothing under its name.
C6_AliasConflictLeavesNeitherSide ==
  [][\A g \in HybridGroups, c \in HybridCommands \cup HybridGroups :
       ( /\ Called("add_command", g, c)
         /\ ~TooNested(g, c, parent)
         /\ Name[c] \notin DOMAIN all_commands[g]
         /\ \E i \in 1..Len(Aliases[c]) : Aliases[c][i] \in DOMAIN all_commands[g] )
       => /\ last'.err = "CommandRegistrationError(alias)"
          /\ c \notin MapRange(all_commands'[g])
          /\ Name[c] \notin DOMAIN app_children'[g]]_vars

\* C7 (as claimed): add_command of a child whose name is already a key of the
\* group ends in a registration conflict and leaves the group's mapping and the
\* adapter's children exactly as they were.
C7_DuplicateNameRolledBack ==
  [][\A g \in HybridGroups, c \in HybridCommands \cup HybridGroups :
       ( /\ Called("add_command", g, c)
         /\ ~TooNested(g, c, parent)
         /\ Name[c] \in DOMAIN all_commands[g] )
       => /\ last'.err \in {"CommandRegistrationError(name)", "CommandAlreadyRegistered"}
          /\ all_commands'[g] = all_commands[g]
          /\ app_children'[g] = app_children[g]]_vars

\* C8: add_command on a group that has a parent, with a hybrid group as child,
\* or with a child that is no hybrid wrapper, ends in an error and changes
\* neither the mapping, nor the adapter's children, nor any parent reference.
C8_RejectedBeforeAnyMutation ==
  [][\A g \in HybridGroups, c \in Objects :
       ( /\ Called("add_command", g, c)
         /\ \/ c \in HybridGroups /\ parent[g] # None
            \/ c \in PlainCommands )
       => /\ last'.err = (IF c \in PlainCommands THEN "TypeError" ELSE "ValueError")
          /\ all_commands' = all_commands
          /\ app_children' = app_children
          /\ parent' = parent]_vars

C8_Witness ==
  /\ last.op = "add_command" /\ last.err = "ValueError"
  /\ last.arg \in HybridGroups /\ parent[last.group] # None
  /\ all_commands[last.group] # EmptyMap

\* C9 (as claimed): there is never a chain group -> sub-group -> sub-sub-group of
\* three different hybrid groups, in the wrapper tree or in the adapter tree.
C9_NestingAtMostOneLevel ==
  \A a, b, c \in HybridGroups :
     (a # b /\ b # c /\ a # c) =>
        /\ ~(b \in SubGroups(a) /\ c \in SubGroups(b))
        /\ ~(b \in AppSubGroups(a) /\ c \in AppSubGroups(b))

\* C10 (as claimed): remove_command(name), name being the name a child is
\* registered under, leaves the mapping without that name and without any of
\* the child's aliases, and the adapter without a child of that name.
C10_RemoveClearsNameAndAliases ==
  [][\A g \in HybridGroups, name \in Keys :
       ( /\ Called("remove_command", g, name)
         /\ name \in DOMAIN all_commands[g]
         /\ Name[all_commands[g][name]] = name )
       => /\ name \notin DOMAIN all_commands'[g]
          /\ \A i \in 1..Len(Aliases[all_commands[g][name]]) :
                Aliases[all_commands[g][name]][i] \notin DOMAIN all_commands'[g]
          /\ name \notin DOMAIN app_children'[g]]_vars

\* C10 (amended): remove_command(name), name being the name a child is
\* registered under, returns that child and leaves no key of the mapping mapping
\* to it and no child of that name in the adapter; every key that mapped to
\* another command is kept, also one that is spelled like an alias of the child.
C10_RemoveTearsDownBothSides ==
  [][\A g \in HybridGroups, name \in Keys :
       ( /\ Called("remove_command", g, name)
         /\ name \in DOMAIN all_commands[g]
         /\ Name[all_commands[g][name]] = name )
       => LET child == all_commands[g][name] IN
          /\ last'.ret = child
          /\ child \notin MapRange(all_commands'[g])
          /\ name \notin DOMAIN all_commands'[g]
          /\ name \notin DOMAIN app_children'[g]
          /\ child \notin MapRange(app_children'[g])
          /\ \A k \in DOMAIN all_commands[g] :
                all_commands[g][k] # child =>
                   k \in DOMAIN all_commands'[g] /\ all_commands'[g][k] = all_commands[g][k]
          /\ \A k \in DOMAIN app_children[g] :
                k # name =>
                   k \in DOMAIN app_children'[g] /\ app_children'[g][k] = app_children[g][k]]_vars

\* a removal by name after which a key spelled like an alias of the removed
\* child is still there, held by another command on both sides
C10_Witness ==
  /\ last.op = "remove_command" /\ last.ret # None /\ Name[last.ret] = last.arg
  /\ last.ret \notin MapRange(all_commands[last.group])
  /\ \E i \in 1..Len(Aliases[last.ret]) :
        /\ Aliases[last.ret][i] \in DOMAIN all_commands[last.group]
        /\ Aliases[last.ret][i] \in DOMAIN app_children[last.group]
\* C11 (as claimed): after any sequence of add_command and remove_command calls
\* the children of a group's structured adapter are exactly the adapters of the
\* children in the group's name/alias mapping, each under its wrapper's name.
C11_AdapterMirrorsWrapper ==
  \A g \in HybridGroups :
     /\ DOMAIN app_children[g] = {Name[c] : c \in MapRange(all_commands[g])}
     /\ \A c \in MapRange(all_commands[g]) : app_children[g][Name[c]] = c

(***************************************************************************)
(* More claims about the check chain                                       *)
(***************************************************************************)
\* C16: the parent's interaction check is evaluated only for a command that has
\* a parent which is not its binding, and for such a command it is what follows
\* the two bot checks; no check point is evaluated twice in one run, so the
\* interaction check of an object that is parent and binding runs at most once.
C16_ParentCheckOnlyWhenNotBinding ==
  /\ (\E k \in 1..Len(ran) : ran[k].point = "parent.interaction_check")
       => chk.parent # "None" /\ chk.parent # "binding"
  /\ (chk.parent # "None" /\ chk.parent # "binding" /\ Len(ran) >= 3)
       => ran[3].point = "parent.interaction_check"
  /\ (chk.parent # "None" /\ chk.parent # "binding" /\ Len(ran) = 2
        /\ ran[1].outcome = "truthy" /\ ran[2].outcome = "truthy")
       => chk_pc = "parent.interaction_check"
  /\ \A j, k \in 1..Len(ran) : j # k => PointsRun[j] # PointsRun[k]
  /\ chk.parent = "binding" =>
        Cardinality({k \in 1..Len(ran) :
                       ran[k].point \in {"parent.interaction_check",
                                         "binding.interaction_check"}}) <= 1

\* a full run for a command whose parent is its binding: the binding's
\* interaction check ran, the parent's did not
C16_Witness ==
  /\ chk_result = "True"
  /\ chk.parent = "binding"
  /\ \E k \in 1..Len(ran) : ran[k].point = "binding.interaction_check"
  /\ ~\E k \in 1..Len(ran) : ran[k].point = "parent.interaction_check"
(***************************************************************************)
(* More claims about the invocation                                        *)
(***************************************************************************)
InvokeOrder ==
  <<[call |-> "bot.get_context", arg |-> "interaction"],
    [call |-> "wrapped.prepare", arg |-> "ctx"],
    [call |-> "_do_call", arg |-> "ctx"]>>

\* C12: an invocation builds the context from the interaction, then runs
\* prepare on that context, then the callback; the callback runs only when
\* prepare raised nothing, and when the callback returns, its result is what the
\* invocation returns and nothing is handed to dispatch_error.
C12_ContextThenPrepareThenCallback ==
  /\ Len(inv_steps) <= 3
  /\ inv_steps = SubSeq(InvokeOrder, 1, Len(inv_steps))
  /\ Len(inv_steps) >= 2 => inv_ctx
  /\ Len(inv_steps) = 3 => (inv_error = <<>> \/ inv_error[1] = "callback")
  /\ inv_ret # <<>> =>
        /\ inv_steps = InvokeOrder
        /\ inv_pc = "done"
        /\ inv_error = <<>> /\ dispatched = <<>> /\ inv_raised = <<>>
  /\ (inv_pc = "done" /\ inv_error = <<>>) => inv_ret # <<>>

\* an invocation that went through all three steps and returned the callback's result
C12_Witness ==
  /\ inv_pc = "done"
  /\ inv_steps = InvokeOrder
  /\ inv_ret = <<MaxValue>>
  /\ dispatched = <<>>
(***************************************************************************)
(* Claims about construction and the cog property                          *)
(***************************************************************************)
\* C13 (as claimed): the adapter made at construction has the wrapper's name and
\* the wrapper's description, whatever the description, an empty one included.
C13_AdapterMirrorsNameAndDescription ==
  wrapper.kind # "none" =>
    /\ adapter.name = wrapper.name
    /\ adapter.description = wrapper.description

\* C13 (amended): the adapter made at construction has the wrapper's name, and
\* the wrapper's description when that is not empty; for an empty description it
\* has the wrapper's short_doc, or the placeholder when that is empty too, and
\* so never an empty description.
C13_AdapterMirrorsNameAndNonEmptyDescription ==
  wrapper.kind # "none" =>
    /\ adapter.name = wrapper.name
    /\ wrapper.description # "" => adapter.description = wrapper.description
    /\ (wrapper.description = "" /\ wrapper.short_doc # "")
         => adapter.description = wrapper.short_doc
    /\ (wrapper.description = "" /\ wrapper.short_doc = "") => adapter.description = "..."
    /\ adapter.description # ""

\* a group built with an empty description and a short_doc, and a description to mirror
C13_Witness ==
  /\ wrapper.kind = "HybridGroup"
  /\ wrapper.description = "" /\ wrapper.short_doc = "short doc B"
  /\ adapter.description = "short doc B"
  /\ adapter.name = wrapper.name

\* C17: after construction and after every assignment to HybridCommand.cog the
\* adapter's binding is the wrapper's cog.
C17_BindingIsTheWrappersCog ==
  wrapper.kind = "HybridCommand" =>
    /\ adapter.kind = "HybridAppCommand"
    /\ adapter.binding = wrapper.cog
    /\ adapter.wrapped = <<wrapper.name>>

\* a command whose cog has been assigned
C17_Witness ==
  /\ wrapper.kind = "HybridCommand"
  /\ wrapper.cog = "cog2"
  /\ adapter.binding = "cog2"
(***************************************************************************)
(* Claims about replace_parameters                                         *)
(***************************************************************************)
\* the converter of the command parameter called name, as a set of at most one
ConverterOfParam(name) ==
  {repl.parameters[j].converter : j \in {k \in 1..Len(repl.parameters) : repl.parameters[k].name = name}}

IsConversionHelper(converter) == converter.kind \in {"Converter subclass", "Converter instance"}

\* C14: replace_parameters returns the parameters of the signature in their
\* order, and the annotation of a parameter is replaced by a synthesized
\* transformer of its converter if and only if the converter is a Converter
\* subclass or instance without the transformer marker; every other parameter
\* is returned as it was.
C14_ReplacesExactlyUnmarkedHelpers ==
  /\ Len(repl.result) = Len(repl.signature)
  /\ \A i \in 1..Len(repl.signature) :
       LET before == repl.signature[i]
           after == repl.result[i]
           wanted == {c \in ConverterOfParam(before.name) : IsConversionHelper(c) /\ ~c.marker}
       IN /\ after.name = before.name
          /\ wanted = {} => after = before
          /\ \A c \in wanted :
               after.annotation = <<"ConverterTransformer", before.name, c.kind>>
          /\ after.annotation[1] = "ConverterTransformer" <=> wanted # {}

\* a method with two parameters: a helper instance that is replaced, then a
\* helper class with the marker that is not
C14_Witness ==
  /\ Len(repl.parameters) = 2 /\ Len(repl.signature) = 4
  /\ repl.parameters[1].converter = [kind |-> "Converter instance", marker |-> FALSE]
  /\ repl.parameters[2].converter = [kind |-> "Converter subclass", marker |-> TRUE]
  /\ repl.result[3].annotation[1] = "ConverterTransformer"
  /\ repl.result[4] = repl.signature[4]
(***************************************************************************)
(* Claims about the routing of HybridCommand                               *)
(***************************************************************************)
BaseImplementations == {"super().can_run", "super()._parse_arguments"}
AdapterImplementations == {"app_command._check_can_run", "app_command._transform_arguments"}

\* C15: without an interaction can_run and _parse_arguments await the base
\* implementation only and give what it gives; with an interaction can_run
\* gives exactly what the adapter's _check_can_run gives, the arguments are
\* those of the adapter's _transform_arguments, and the base implementation
\* is not awaited.
C15_RoutesByInvocationSurface ==
  route.op # "none" =>
    /\ Len(route.called) = 1
    /\ route.interaction = None =>
         /\ SeqRange(route.called) \subseteq BaseImplementations
         /\ route.op = "can_run" => route.result = route.base
         /\ route.op = "_parse_arguments" =>
              /\ route.result.kind = route.base.kind /\ route.result.err = route.base.err
              /\ route.kwargs # <<>> => route.kwargs = <<"parsed", route.base.value>>
    /\ route.interaction # None =>
         /\ SeqRange(route.called) \subseteq AdapterImplementations
         /\ route.op = "can_run" => route.result = route.app
         /\ route.op = "_parse_arguments" =>
              /\ route.result.kind = route.app.kind /\ route.result.err = route.app.err
              /\ route.app.kind = "returns" => route.kwargs = <<"transformed", route.app.value>>
              /\ route.app.kind = "raises" => route.kwargs = <<>>

\* a structured invocation whose adapter check chain fails where the base check
\* chain would have passed
C15_Witness ==
  /\ route.op = "can_run"
  /\ route.interaction = "interaction"
  /\ route.base.kind = "returns" /\ route.base.value
  /\ route.app.kind = "returns" /\ ~route.app.value
  /\ route.result = route.app
====
